---- MODULE Spec2Model ----
(***************************************************************************)
(* Songs resource of the NestJS fundamentals walkthrough: SongsService     *)
(* (an in-memory array with create / findAll) and SongsController (five    *)
(* routes, three of them stubs).                                           *)
(*                                                                         *)
(* JavaScript arrays and objects are reference values, so the model keeps  *)
(* a heap of song objects (objs), the contents of the service's private    *)
(* array (songs), and the references a caller of the service holds.  A     *)
(* reference either designates the service's own array or a distinct       *)
(* array with its own contents.                                            *)
(***************************************************************************)
EXTENDS Integers, Sequences, FiniteSets, TLC

\* Bounds of the model.
MaxCreates == 2   \* create calls (direct or through POST) in one behaviour
MaxWrites == 1    \* writes a caller makes to an array it was handed

----------------------------------------------------------------------------
\* Values

\* The object literal SongsController.addASong passes to create.
HardcodedSong == [title |-> "Ulazi ", artist |-> "Amaroto "]

\* Another record of the Song interface, for callers that choose their input.
OtherSong == [title |-> "Imali", artist |-> "Zola"]

\* A record without artist: the compiler rejects it as a Song, the running
\* program receives it like any other object.
NoArtistSong == [title |-> "Untitled"]

SongValues == {HardcodedSong, OtherSong, NoArtistSong}

\* Remote clients that send requests on their own.
Clients == {"c1", "c2"}

\* Route parameters and request bodies a client may send.
Ids == {"42", "abc"}
Bodies == {HardcodedSong, OtherSong}

\* The records a caller puts into an array it was handed.
WriteValues == {OtherSong}

\* References to arrays.  "songs" designates the array held in the private
\* field SongsService.songs; "own" designates a distinct array.
NullRef == [kind |-> "null", elems |-> <<>>]
SongsRef == [kind |-> "songs", elems |-> <<>>]
OwnRef(s) == [kind |-> "own", elems |-> s]

\* The contents of the array a reference designates, the field songs being s.
Deref(ref, s) == IF ref.kind = "songs" THEN s ELSE ref.elems

\* What a handler or a service method returns: a reference or a string.
RefVal(r) == [kind |-> "ref", ref |-> r, text |-> ""]
TextVal(t) == [kind |-> "text", ref |-> NullRef, text |-> t]

\* An exception thrown instead of a value returned (no code of the
\* repository throws; variants do).
ErrVal(t) == [kind |-> "error", ref |-> NullRef, text |-> t]

\* HTTP response bodies.
NoResp == [kind |-> "none", text |-> "", list |-> <<>>]
TextResp(t) == [kind |-> "text", text |-> t, list |-> <<>>]
JsonResp(l) == [kind |-> "json", text |-> "", list |-> l]

\* JSON serialisation of an array of song objects: the records by value.
ToJson(hp, arr) == [i \in 1..Len(arr) |-> hp[arr[i]]]

\* The framework serialises what a handler returns.
Serialize(hp, s, val) ==
  IF val.kind = "text" THEN TextResp(val.text)
  ELSE JsonResp(ToJson(hp, Deref(val.ref, s)))

IsPrefix(a, b) == Len(a) <= Len(b) /\ \A i \in 1..Len(a) : a[i] = b[i]

----------------------------------------------------------------------------
\* SongsService

\* Variant: the store starts with a song in it.
NewStore_Seeded == [objs |-> <<HardcodedSong>>, songs |-> <<1>>]

\* private readonly songs: Song[] = [];
NewStore == [objs |-> <<>>, songs |-> <<>>]

\* Variant: the new element overwrites the last one instead of following it.
push_OverLast(arr, el) ==
  IF arr = <<>> THEN <<el>> ELSE [arr EXCEPT ![Len(arr)] = el]

\* Array.prototype.push
push(arr, el) == Append(arr, el)

\* Variant: unshift instead of push (the song goes to the front).
create_Unshift(s, song) == [songs |-> <<song>> \o s, ret |-> RefVal(SongsRef)]

\* Variant: a record that is stored already is rejected.
create_Unique(s, song) ==
  IF \E i \in 1..Len(s) : s[i] = song
  THEN [songs |-> s, ret |-> ErrVal("duplicate")]
  ELSE [songs |-> Append(s, song), ret |-> RefVal(SongsRef)]

\* create(song): push, then return this.songs (the array itself).
create(s, song) == [songs |-> push(s, song), ret |-> RefVal(SongsRef)]

\* Variant: return this.songs (no spread).
findAll_Alias(s) == [songs |-> s, ret |-> RefVal(SongsRef)]

\* Variant: the copy is taken with splice(0), which empties the array.
findAll_Splice(s) == [songs |-> <<>>, ret |-> RefVal(OwnRef(s))]

\* findAll(): return [...this.songs] (a new array with the same elements).
findAll(s) == [songs |-> s, ret |-> RefVal(OwnRef(s))]

\* Variant: create stores a copy of the record ({...song}), a new object.
createCall_Clone(hp, s, song) ==
  [objs |-> Append(hp, hp[song]), call |-> create(s, Len(hp) + 1)]

\* A call of create on the heap hp: the song object itself goes into the
\* array, no object is allocated.
createCall(hp, s, song) == [objs |-> hp, call |-> create(s, song)]

\* Variant: findAll copies every record too (a deep copy).
findAllCall_Deep(hp, s) ==
  [objs |-> hp \o [i \in 1..Len(s) |-> hp[s[i]]],
   call |-> [songs |-> s,
             ret |-> RefVal(OwnRef([i \in 1..Len(s) |-> Len(hp) + i]))]]

\* A call of findAll on the heap hp: the spread copies the element
\* references into a new array, no song object is allocated.
findAllCall(hp, s) == [objs |-> hp, call |-> findAll(s)]

----------------------------------------------------------------------------
\* SongsController.  Each handler is given the store's array contents s; the
\* result is the new contents and the value the handler returns.

\* Variant: the controller lists a service instance of its own, not the one
\* addASong writes to.
SongsController_findAll_OwnStore(s) == findAll(<<>>)

SongsController_findAll(s) == findAll(s)

findASong(s, id) == [songs |-> s, ret |-> TextVal("Song Received!!")]

\* Variant: the request body is passed on to create.
addASongArg_Body(body) == body

\* The argument addASong passes to create: a literal, whatever the body.
addASongArg(body) == HardcodedSong

\* Variant: the service is request-scoped, each request gets a new one.
addASong_RequestScoped(s, obj) == create(<<>>, obj)

\* addASong allocates the literal (object number obj) and calls create.
addASong(s, obj) == create(s, obj)

\* Variant: the literal with its spelling put right.
changeASong_Spelling(s, id) ==
  [songs |-> s, ret |-> TextVal("Song updated successfully!!")]

\* Variant: an update done as remove-and-add-again of the first song.
changeASong_Move(s, id) ==
  [songs |-> IF s = <<>> THEN s ELSE Tail(s) \o <<Head(s)>>,
   ret |-> TextVal("Song updated succesfully!!")]

changeASong(s, id) == [songs |-> s, ret |-> TextVal("Song updated succesfully!!")]

\* Variant: the last song is removed.
removeASong_Pop(s, id) ==
  [songs |-> IF s = <<>> THEN s ELSE SubSeq(s, 1, Len(s) - 1),
   ret |-> TextVal("Song removed succesfully!!")]

removeASong(s, id) == [songs |-> s, ret |-> TextVal("Song removed succesfully!!")]

----------------------------------------------------------------------------
\* The route table the decorators of SongsController declare: the prefix of
\* @Controller('songs') followed by the path of the method's decorator.

Routes == {
  [handler |-> "findAll", method |-> "GET", path |-> <<"songs">>],
  [handler |-> "findASong", method |-> "GET", path |-> <<"songs", ":id">>],
  [handler |-> "addASong", method |-> "POST", path |-> <<"songs">>],
  [handler |-> "changeASong", method |-> "PUT", path |-> <<"songs", ":id">>],
  [handler |-> "removeASong", method |-> "DELETE", path |-> <<"songs", ":id">>] }

\* A pattern segment that is a route parameter.
IsParam(pat) == pat = ":id"

\* A parameter matches any non-empty segment, a literal matches itself.
SegMatches(pat, seg) == IF IsParam(pat) THEN seg # "" ELSE pat = seg

\* Variant: a route matches every path it is a prefix of.
Matches_Prefix(route, method, path) ==
  /\ route.method = method
  /\ Len(route.path) <= Len(path)
  /\ \A i \in 1..Len(route.path) : SegMatches(route.path[i], path[i])

\* A route matches a request of its method whose path has as many segments
\* as its pattern, each matching.
Matches(route, method, path) ==
  /\ route.method = method
  /\ Len(route.path) = Len(path)
  /\ \A i \in 1..Len(path) : SegMatches(route.path[i], path[i])

\* The handlers whose route matches a request.
Matching(method, path) ==
  {r.handler : r \in {q \in Routes : Matches(q, method, path)}}

----------------------------------------------------------------------------
\* State

VARIABLES
  objs,     \* heap of song objects: objs[o] is the record of object o
  songs,    \* contents of SongsService.songs: a sequence of object numbers
  x,        \* the reference a caller keeps, and the method it came from
  ret,      \* value returned by the last direct call of the service
  resp,     \* body of the last HTTP response
  last,     \* the last operation and its inputs
  created,  \* history: the objects passed to create so far, in call order
  posts,    \* history: number of POST /songs requests served
  wrote,    \* history: the origins of the arrays the caller has written to
  writes,   \* number of writes the caller has made
  req,      \* method and path of the last HTTP request
  inflight, \* requests of remote clients sent and not yet served
  got,      \* got[c]: the response client c received to its last request
  rec       \* the record the caller last passed to create, and where it went

vars == <<objs, songs, x, ret, resp, last, created, posts, wrote, writes, req,
          inflight, got, rec>>

NoBody == [title |-> "", artist |-> ""]
Op(name, id, body, arg) == [op |-> name, id |-> id, body |-> body, arg |-> arg]

NoVal == TextVal("")
NoHeld == [ref |-> NullRef, from |-> "none"]
NoReq == [method |-> "", path |-> <<>>]
NoRec == [obj |-> 0, pos |-> 0]

Init ==
  /\ objs = NewStore.objs
  /\ songs = NewStore.songs
  /\ x = NoHeld
  /\ ret = NoVal
  /\ resp = NoResp
  /\ last = Op("init", "", NoBody, 0)
  /\ created = <<>>
  /\ posts = 0
  /\ wrote = {}
  /\ writes = 0
  /\ req = NoReq
  /\ inflight = {}
  /\ got = [c \in Clients |-> NoResp]
  /\ rec = NoRec

----------------------------------------------------------------------------
\* Direct calls of the service

\* The caller may keep the returned reference in x or drop it.
Keep(keep, val, from) == IF keep THEN [ref |-> val.ref, from |-> from] ELSE x

\* this.songsService.create(o), o an object of the heap hp.
DoCreate(hp, o, keep) ==
  LET c == createCall(hp, songs, o)
      r == c.call
  IN
  /\ Len(created) < MaxCreates
  /\ objs' = c.objs
  /\ rec' = [obj |-> o, pos |-> Len(Deref(r.ret.ref, r.songs))]
  /\ songs' = r.songs
  /\ ret' = r.ret
  /\ x' = Keep(keep, r.ret, "create")
  /\ resp' = NoResp
  /\ last' = Op("create", "", NoBody, o)
  /\ created' = Append(created, o)
  /\ req' = NoReq
  /\ UNCHANGED <<posts, wrote, writes, inflight, got>>

\* create with a record the caller has just built.
CreateNew == \E v \in SongValues, keep \in BOOLEAN :
  DoCreate(Append(objs, v), Len(objs) + 1, keep)

\* create with a record object that exists already (possibly stored before).
CreateSame == \E o \in 1..Len(objs), keep \in BOOLEAN :
  DoCreate(objs, o, keep)

FindAll == \E keep \in BOOLEAN :
  LET c == findAllCall(objs, songs)
      r == c.call
  IN
  /\ objs' = c.objs
  /\ songs' = r.songs
  /\ ret' = r.ret
  /\ x' = Keep(keep, r.ret, "findAll")
  /\ resp' = NoResp
  /\ last' = Op("findAll", "", NoBody, 0)
  /\ req' = NoReq
  /\ UNCHANGED <<created, posts, wrote, writes, inflight, got, rec>>

----------------------------------------------------------------------------
\* HTTP requests

\* The request method path reaches handler, a handler its route matches.
Routed(method, path, handler) ==
  /\ handler \in Matching(method, path)
  /\ req' = [method |-> method, path |-> path]

\* A request served by a handler that takes the store's array and returns r.
Served(hp, r, op) ==
  /\ objs' = hp
  /\ songs' = r.songs
  /\ resp' = Serialize(hp, r.songs, r.ret)
  /\ ret' = NoVal
  /\ last' = op
  /\ UNCHANGED <<x, wrote, writes, rec>>

\* The handler of GET /songs runs: one synchronous call, no await.
HandleGetSongs ==
  /\ Routed("GET", <<"songs">>, "findAll")
  /\ Served(objs, SongsController_findAll(songs), Op("GET /songs", "", NoBody, 0))
  /\ UNCHANGED <<created, posts>>

GetSongs == HandleGetSongs /\ UNCHANGED <<inflight, got>>

GetSong == \E id \in Ids :
  /\ Routed("GET", <<"songs", id>>, "findASong")
  /\ Served(objs, findASong(songs, id), Op("GET /songs/:id", id, NoBody, 0))
  /\ UNCHANGED <<created, posts, inflight, got>>

\* The handler of POST /songs runs: one synchronous call, no await.
HandlePostSongs(body) ==
  LET hp == Append(objs, addASongArg(body))
      o == Len(hp)
  IN
  /\ Len(created) < MaxCreates
  /\ Routed("POST", <<"songs">>, "addASong")
  /\ Served(hp, addASong(songs, o), Op("POST /songs", "", body, o))
  /\ created' = Append(created, o)
  /\ posts' = posts + 1

PostSongs == \E body \in Bodies :
  HandlePostSongs(body) /\ UNCHANGED <<inflight, got>>

PutSong == \E id \in Ids :
  /\ Routed("PUT", <<"songs", id>>, "changeASong")
  /\ Served(objs, changeASong(songs, id), Op("PUT /songs/:id", id, NoBody, 0))
  /\ UNCHANGED <<created, posts, inflight, got>>

DeleteSong == \E id \in Ids :
  /\ Routed("DELETE", <<"songs", id>>, "removeASong")
  /\ Served(objs, removeASong(songs, id), Op("DELETE /songs/:id", id, NoBody, 0))
  /\ UNCHANGED <<created, posts, inflight, got>>

----------------------------------------------------------------------------
\* The caller writes to the array its reference x designates.

Held == Deref(x.ref, songs)

\* The array x designates becomes arr; the heap becomes hp.
Written(hp, arr, op) ==
  /\ x.ref.kind # "null"
  /\ writes < MaxWrites
  /\ objs' = hp
  /\ IF x.ref.kind = "songs"
     THEN songs' = arr /\ x' = x
     ELSE songs' = songs /\ x' = [x EXCEPT !.ref = OwnRef(arr)]
  /\ ret' = NoVal
  /\ resp' = NoResp
  /\ last' = op
  /\ wrote' = wrote \cup {x.from}
  /\ writes' = writes + 1
  /\ req' = NoReq
  /\ UNCHANGED <<created, posts, inflight, got, rec>>

\* arr.push(record)
WritePush == \E v \in WriteValues :
  Written(Append(objs, v), Append(Held, Len(objs) + 1),
          Op("push", "", NoBody, Len(objs) + 1))

\* arr.pop()
WritePop ==
  /\ Len(Held) > 0
  /\ Written(objs, SubSeq(Held, 1, Len(Held) - 1), Op("pop", "", NoBody, 0))

\* arr[i] = record
WriteSet == \E i \in 1..Len(Held), v \in WriteValues :
  Written(Append(objs, v), [Held EXCEPT ![i] = Len(objs) + 1],
          Op("set", "", NoBody, Len(objs) + 1))

----------------------------------------------------------------------------
\* The caller writes to a field of a song object it can reach.

NewTitle == "Remix"
SetTitle(song) == [song EXCEPT !.title = NewTitle]

\* The field title of object o is assigned.
FieldWritten(o, op) ==
  /\ writes < MaxWrites
  /\ objs' = [objs EXCEPT ![o] = SetTitle(objs[o])]
  /\ ret' = NoVal
  /\ resp' = NoResp
  /\ last' = op
  /\ wrote' = wrote \cup {"record"}
  /\ writes' = writes + 1
  /\ req' = NoReq
  /\ UNCHANGED <<songs, x, created, posts, inflight, got, rec>>

\* arr[i].title = ..., arr the array x designates
WriteField == \E i \in 1..Len(Held) :
  /\ x.ref.kind # "null"
  /\ FieldWritten(Held[i], Op("setField", "", NoBody, i))

\* song.title = ..., song the record the caller passed to create
WriteOwnField ==
  /\ rec # NoRec
  /\ FieldWritten(rec.obj, Op("setOwnField", "", NoBody, rec.obj))

----------------------------------------------------------------------------
Next ==
  \/ CreateNew
  \/ CreateSame
  \/ FindAll
  \/ GetSongs
  \/ GetSong
  \/ PostSongs
  \/ PutSong
  \/ DeleteSong
  \/ WritePush
  \/ WritePop
  \/ WriteSet
  \/ WriteField
  \/ WriteOwnField

Spec == Init /\ [][Next]_vars

----------------------------------------------------------------------------
\* Several remote clients.  A client sends a request and waits for its
\* response; the requests in flight are served one at a time, in any order,
\* each by one run of its handler.

Pending(method) == {q \in inflight : q.method = method}

Send == \E c \in Clients, method \in {"GET", "POST"}, body \in Bodies \cup {NoBody} :
  /\ \A q \in inflight : q.client # c
  /\ method = "GET" <=> body = NoBody
  /\ method = "POST" => posts + Cardinality(Pending("POST")) < MaxCreates
  /\ inflight' = inflight \cup {[client |-> c, method |-> method, body |-> body]}
  /\ got' = [got EXCEPT ![c] = NoResp]
  /\ UNCHANGED <<objs, songs, x, ret, resp, last, created, posts, wrote, writes,
                 req, rec>>

\* The response of the request q goes to its client.
Answered(q) ==
  /\ inflight' = inflight \ {q}
  /\ got' = [got EXCEPT ![q.client] = resp']

ServeGet == \E q \in Pending("GET") : HandleGetSongs /\ Answered(q)

ServePost == \E q \in Pending("POST") : HandlePostSongs(q.body) /\ Answered(q)

NextClients ==
  \/ Send
  \/ ServeGet
  \/ ServePost

SpecClients == Init /\ [][NextClients]_vars

----------------------------------------------------------------------------
\* Properties

\* The record the specification names for POST /songs.
ClaimSong == [title |-> "Ulazi ", artist |-> "Amaroto "]

\* The contents of the array the last direct call returned.
Returned == Deref(ret.ref, songs)

StubOps == {"GET /songs/:id", "PUT /songs/:id", "DELETE /songs/:id"}
WriteOps == {"push", "pop", "set", "setField", "setOwnField"}

\* C1: after create(s1), ..., create(sn) on a store that started empty, with
\* findAll calls interleaved and no other access to the arrays, findAll()
\* returns exactly <s1, ..., sn>: the same records in creation order.
C1_FindAllInCreationOrder ==
  (last.op = "findAll" /\ wrote = {}) =>
    (ret.kind = "ref" /\ Returned = created)

C1_Witness ==
  /\ last.op = "findAll"
  /\ wrote = {}
  /\ Len(created) = 2
  /\ objs[created[1]] # objs[created[2]]
  /\ Returned = created

\* C2: the collection create returns is a snapshot: the caller writing to it
\* (append, remove, replace) and the store do not affect each other, so a
\* later findAll() still returns exactly the songs created so far.
C2_CreateReturnsSnapshot ==
  (last.op = "findAll" /\ wrote \subseteq {"create"}) => Returned = created

\* C3: findAll never returns the store's own array, and writing to an array
\* findAll returned does not change what a later findAll returns.
C3_FindAllCopyOut ==
  /\ last.op = "findAll" => (ret.kind = "ref" /\ ret.ref.kind = "own")
  /\ x.from = "findAll" => x.ref.kind = "own"
  /\ (last.op = "findAll" /\ wrote \subseteq {"findAll"}) => Returned = created

C3_Witness ==
  /\ last.op = "findAll"
  /\ wrote = {"findAll"}
  /\ x.from = "findAll"
  /\ Len(created) >= 1
  /\ x.ref.elems # Returned

\* C4: create(song) on a store holding S returns S followed by song, and
\* the store holds S followed by song; a findAll that follows returns the
\* same sequence.  After one create of the Ulazi record on a fresh store,
\* findAll returns the one-element sequence holding that record.
C4_CreateStep ==
  /\ last'.op \in {"create", "POST /songs"} =>
       /\ songs' = Append(songs, last'.arg)
       /\ last'.op = "create" => Deref(ret'.ref, songs') = Append(songs, last'.arg)
       /\ last'.op = "POST /songs" =>
            resp' = JsonResp(ToJson(objs', Append(songs, last'.arg)))
  /\ (last.op = "create" /\ last'.op = "findAll") =>
       Deref(ret'.ref, songs') = Returned

C4_FirstCreate ==
  (/\ last.op = "findAll"
   /\ wrote = {}
   /\ Len(created) = 1
   /\ objs[created[1]] = ClaimSong) =>
     ToJson(objs, Returned) = <<ClaimSong>>

C4_CreateAppends == [][C4_CreateStep]_vars /\ []C4_FirstCreate

C4_Witness ==
  /\ last.op = "create"
  /\ Len(songs) = 2
  /\ songs[1] # songs[2]
  /\ Returned = songs

\* C5: findAll() on a freshly constructed store, before any create, returns
\* the empty sequence.
C5_FreshFindAllEmpty ==
  (last.op = "findAll" /\ created = <<>>) =>
    (ret.kind = "ref" /\ Returned = <<>>)

C5_Witness ==
  /\ last.op = "findAll"
  /\ created = <<>>
  /\ Returned = <<>>

\* C6: GET /songs answers with the listing of the one store the POST handler
\* writes to: [] on an empty store, and n copies of the Ulazi record after
\* n POST /songs requests (no other create, no record written to by a
\* caller of the service), stub requests interleaved.
C6_GetSongs ==
  last.op = "GET /songs" =>
    /\ resp = JsonResp(ToJson(objs, songs))
    /\ (posts = Len(created) /\ "record" \notin wrote) =>
         resp = JsonResp([i \in 1..posts |-> ClaimSong])

C6_Witness ==
  /\ last.op = "GET /songs"
  /\ posts = 2
  /\ Len(created) = 2
  /\ resp = JsonResp(<<ClaimSong, ClaimSong>>)

\* C7: the three stub routes answer with their fixed literals, for every id
\* and in every store state.
C7_StubLiterals ==
  /\ last.op = "GET /songs/:id" => resp = TextResp("Song Received!!")
  /\ last.op = "PUT /songs/:id" => resp = TextResp("Song updated succesfully!!")
  /\ last.op = "DELETE /songs/:id" => resp = TextResp("Song removed succesfully!!")

C7_Witness ==
  /\ last.op = "DELETE /songs/:id"
  /\ last.id = "abc"
  /\ Len(songs) = 2
  /\ resp = TextResp("Song removed succesfully!!")

\* C8: a stub request leaves the store unchanged: findAll right after it
\* returns what findAll right before it returned.
C8_StubsLeaveStore ==
  [][last'.op \in StubOps =>
       /\ objs' = objs
       /\ Deref(findAll(songs').ret.ref, songs') = Deref(findAll(songs).ret.ref, songs)
    ]_vars

C8_Witness ==
  /\ last.op = "PUT /songs/:id"
  /\ Len(songs) = 2
  /\ songs[1] # songs[2]

\* C9: POST /songs ignores the request body: whatever the body, the Ulazi
\* record is appended and the previous songs followed by it are returned.
C9_PostIgnoresBody ==
  [][last'.op = "POST /songs" =>
       /\ objs' = Append(objs, ClaimSong)
       /\ songs' = Append(songs, Len(objs) + 1)
       /\ resp' = JsonResp(ToJson(objs, songs) \o <<ClaimSong>>)
    ]_vars

C9_Witness ==
  /\ last.op = "POST /songs"
  /\ last.body # ClaimSong
  /\ Len(songs) = 2
  /\ resp = JsonResp(<<OtherSong, ClaimSong>>)

\* C10: the store is append-only: every store operation and every route
\* request leaves the earlier contents as a prefix of the later contents,
\* and leaves every stored record as it was.
C10_AppendOnly ==
  [][last'.op \notin WriteOps =>
       /\ IsPrefix(songs, songs')
       /\ IsPrefix(objs, objs')
    ]_vars

C10_Witness ==
  /\ last.op = "DELETE /songs/:id"
  /\ last.id = "42"
  /\ wrote = {}
  /\ songs = created
  /\ Len(songs) = 2

\* C11: the route table has no precedence conflict: every request of one of
\* the five shapes is matched by exactly one handler, the one that serves it.
C11_OneHandlerPerRequest ==
  req # NoReq =>
    /\ Cardinality(Matching(req.method, req.path)) = 1
    /\ last.op = "GET /songs" => Matching(req.method, req.path) = {"findAll"}
    /\ last.op = "GET /songs/:id" => Matching(req.method, req.path) = {"findASong"}
    /\ last.op = "POST /songs" => Matching(req.method, req.path) = {"addASong"}
    /\ last.op = "PUT /songs/:id" => Matching(req.method, req.path) = {"changeASong"}
    /\ last.op = "DELETE /songs/:id" => Matching(req.method, req.path) = {"removeASong"}

C11_Witness ==
  /\ req = [method |-> "GET", path |-> <<"songs", "abc">>]
  /\ last.op = "GET /songs/:id"
  /\ Matching(req.method, req.path) = {"findASong"}

RequestOps == {"GET /songs", "POST /songs"} \cup StubOps

\* C12: create has no error outcome: whatever the record (one without
\* artist, one stored already) it returns the list and appends the record,
\* so the same record created twice is stored twice; and no request ends in
\* an error result.
C12_NoError ==
  /\ last.op \in {"create", "findAll"} => ret.kind = "ref"
  /\ last.op \in RequestOps => resp.kind \in {"json", "text"}
  /\ "create" \notin wrote => Len(songs) = Len(created)

C12_CreateStep ==
  last'.op = "create" =>
    /\ ret'.kind = "ref"
    /\ Len(songs') = Len(songs) + 1
    /\ songs'[Len(songs')] = last'.arg

C12_CreateNeverFails == []C12_NoError /\ [][C12_CreateStep]_vars

C12_Witness ==
  /\ last.op = "create"
  /\ ret.kind = "ref"
  /\ Len(created) = 2
  /\ created[1] = created[2]
  /\ objs[created[1]] = NoArtistSong
  /\ songs = created

\* The list of n copies of the record POST /songs stores.
Ulazis(n) == [i \in 1..n |-> ClaimSong]

\* C13: with several clients whose POST /songs and GET /songs requests are
\* served in any order, no append is lost (the store holds as many songs
\* as POST requests were served) and every GET /songs is answered with
\* exactly the songs of the POST requests served before it.
C13_NoLostAppend ==
  /\ Len(songs) = posts
  /\ ToJson(objs, songs) = Ulazis(posts)

C13_ServeStep ==
  \A q \in inflight \ inflight' :
    /\ q.method = "GET" =>
         /\ got'[q.client] = JsonResp(Ulazis(posts))
         /\ posts' = posts
         /\ songs' = songs
    /\ q.method = "POST" =>
         /\ got'[q.client] = JsonResp(Ulazis(posts + 1))
         /\ posts' = posts + 1
         /\ Len(songs') = Len(songs) + 1

C13_InterleavedRequests == []C13_NoLostAppend /\ [][C13_ServeStep]_vars

C13_Witness ==
  /\ got["c1"] = JsonResp(Ulazis(1))
  /\ got["c2"] = JsonResp(Ulazis(2))
  /\ last.op = "GET /songs"
  /\ inflight = {}
  /\ posts = 2
  /\ Len(songs) = 2

ReadOps == {"findAll", "GET /songs"}

\* C14: findAll is read-only: a findAll() call or GET /songs request leaves
\* the store as it was, so consecutive ones with no create in between
\* return equal sequences.
C14_FindAllReadOnly ==
  [][/\ last'.op \in ReadOps => (songs' = songs /\ objs' = objs)
     /\ (last.op = "findAll" /\ last'.op = "findAll") =>
          Deref(ret'.ref, songs') = Returned
     /\ (last.op = "findAll" /\ last'.op = "GET /songs") =>
          resp' = JsonResp(ToJson(objs, Returned))
     /\ (last.op = "GET /songs" /\ last'.op = "findAll") =>
          JsonResp(ToJson(objs', Deref(ret'.ref, songs'))) = resp
     /\ (last.op = "GET /songs" /\ last'.op = "GET /songs") => resp' = resp
    ]_vars

C14_Witness ==
  /\ last.op = "GET /songs"
  /\ x.from = "findAll"
  /\ wrote = {}
  /\ Len(x.ref.elems) = 2
  /\ resp = JsonResp(ToJson(objs, x.ref.elems))

\* What a findAll() called in the state with heap hp and array s returns,
\* record by record.
Listing(hp, s) ==
  LET c == findAllCall(hp, s) IN
  ToJson(c.objs, Deref(c.call.ret.ref, c.call.songs))

ArrayWrites == {"create", "findAll"}

\* C15: the copy findAll makes is shallow: its elements are the store's own
\* record objects, so a field changed on element i of a findAll result shows
\* at position i of every later findAll, the stored sequence keeping its
\* length and order and its other records.
C15_ShallowCopy ==
  [][(/\ last'.op = "setField"
      /\ x.from = "findAll"
      /\ wrote \cap ArrayWrites = {}) =>
       LET i == last'.arg IN
       /\ songs' = songs
       /\ i <= Len(songs)
       /\ x.ref.elems[i] = songs[i]
       /\ Len(Listing(objs', songs')) = Len(songs)
       /\ Listing(objs', songs')[i] = SetTitle(objs[songs[i]])
       /\ \A j \in 1..Len(songs) :
            songs[j] # songs[i] => Listing(objs', songs')[j] = objs[songs[j]]
    ]_vars

C15_Witness ==
  /\ last.op = "setField"
  /\ last.arg = 2
  /\ x.from = "findAll"
  /\ wrote = {"record"}
  /\ Len(songs) = 2
  /\ Listing(objs, songs)[2].title = NewTitle
  /\ Listing(objs, songs)[1].title # NewTitle

\* C16: create stores the caller's record object itself: a field the caller
\* changes on that record after create returned shows, in a later findAll,
\* at the position where the record was appended.
C16_CreateStoresTheObject ==
  [][(last'.op = "setOwnField" /\ "create" \notin wrote) =>
       /\ songs' = songs
       /\ rec.pos \in 1..Len(songs)
       /\ songs[rec.pos] = rec.obj
       /\ Listing(objs', songs')[rec.pos] = SetTitle(objs[rec.obj])
    ]_vars

C16_Witness ==
  /\ last.op = "setOwnField"
  /\ "create" \notin wrote
  /\ rec.pos = 2
  /\ Len(songs) = 2
  /\ Listing(objs, songs)[2].title = NewTitle
  /\ Listing(objs, songs)[1].title # NewTitle

====
